---- MODULE Spec2Model ----
(***************************************************************************)
(* A model of the wish bridge of src/src/wish.rs: the identifier counter,  *)
(* the five callback stores, the event loop (mainloop), the outbound       *)
(* channel with its writer thread, and the start-up of the connection.     *)
(*                                                                         *)
(* Text is modelled as a sequence of one-character strings, so that        *)
(* formatting and parsing are computed as the code computes them.          *)
(***************************************************************************)
EXTENDS Integers, Sequences, FiniteSets, TLC

(***************************************************************************)
(* Bounds of the model.                                                     *)
(***************************************************************************)
\* number of threads that call next_wid / next_var / current_id
NIdThreads == 2
\* number of calls made to the identifier functions
MaxIdCalls == 11
\* number of threads that call start_with / trace_with / tell_wish
NThreads == 2
\* number of calls of start_with / trace_with
MaxStarts == 2
\* number of tell_wish calls
MaxSends == 2
\* length of the buffer mainloop reads into (10000 in the code)
BufSize == 40
\* number of callback registrations made by application threads
MaxRegs == 2
\* number of click notifications read for one registered key
MaxClicks == 2
\* number of different queries ask_wish is called with
MaxQueries == 2
\* number of ask_wish calls
MaxAsks == 2
\* number of notification lines the child writes by itself
MaxNotes == 2
\* length of the texts split_items is called with, the texts of its tests apart
MaxSplitLen == 5

(***************************************************************************)
(* The state: the statics of wish.rs, each thread's position in the        *)
(* function it runs, and the history the properties are stated on.         *)
(***************************************************************************)
VARIABLES
    NEXT_ID,    \* the i64 inside the Mutex of next_static_id
    idLock,     \* the thread holding that Mutex, or 0
    idPc,       \* per thread: where it is inside an identifier function
    idCall,     \* per thread: the function it is in and its parent argument
    idCalls,    \* number of calls made so far
    idLast,     \* the result of the latest call that returned
    idHeld      \* the result of some earlier call, chosen freely

idVars == <<NEXT_ID, idLock, idPc, idCall, idCalls, idLast, idHeld>>

VARIABLES
    TRACE_WISH,   \* OnceLock<bool>: "unset" or "set" (the bool only switches println!)
    WISH,         \* OnceLock<process::Child>: "unset" or "set"
    OUTPUT,       \* OnceLock<process::ChildStdout>: "unset" or "set"
    SENDER,       \* OnceLock<mpsc::Sender<String>>: "unset" or "set"
    childAlive,   \* the child process of WISH is running
    queue,        \* the messages in the mpsc channel, oldest first
    writer,       \* the writer thread: "none", "recv", "write_msg", "write_nl", "panicked"
    writerMsg,    \* the message the writer thread has received and is writing
    wire,         \* everything written to the child's stdin, in order
    chPc,         \* per thread: where it is inside start_with / trace_with / tell_wish
    chIdx,        \* per thread: the setup statement it writes next
    sends,        \* per thread: number of tell_wish calls made
    starts,       \* one record per call of start_with / trace_with, in call order
    chInv,        \* per thread: the index in starts of the call it is in
    enq           \* the command texts in the order they entered the channel

chanVars == <<TRACE_WISH, WISH, OUTPUT, SENDER, childAlive, queue, writer, writerMsg,
              wire, chPc, chIdx, sends, starts, chInv, enq>>

VARIABLES
    callbacks,    \* the five stores: per store, the closures by key
    lp,           \* mainloop: "off", "read", "call", "check", "reinsert", "stopped", "panicked",
                  \* "deadlock"
    cur,          \* the callback mainloop has taken out of its store and is evaluating
    kills,        \* number of kill() calls on the child made by mainloop and by end_wish
    ended,        \* end_wish: "no", "killed" (kill_wish done), "exited" (process::exit done)
    nRegs,        \* number of registrations made by application threads
    note,         \* what the child wrote in the chunk mainloop read last
    hist,         \* per key of the no-argument store: registrations, clicks, calls
    rebound,      \* the latest registration made under a key while it was dispatched
    loopHolds     \* the Mutexes the thread of mainloop holds between its steps

loopVars == <<callbacks, lp, cur, kills, ended, nRegs, note, hist, rebound, loopHolds>>

VARIABLES
    childOut,     \* the bytes the child has written to its stdout and nobody has read
    childPos,     \* how many of the writes on its stdin the child has taken in
    askRet,       \* the query and the return value of the latest ask_wish that returned
    askQ,         \* the query of the ask_wish in progress, or 0
    nAsks,        \* number of ask_wish calls made
    nNotes        \* number of notification lines the child has written by itself

askVars == <<childOut, childPos, askRet, askQ, nAsks, nNotes>>

VARIABLES
    splitText,    \* the argument of a call of split_items
    splitRet      \* what the call returned, once it has

splitVars == <<splitText, splitRet>>

\* what the actions of one component leave alone
notIdVars == <<chanVars, loopVars, askVars, splitVars>>

notChanVars == <<idVars, loopVars, askVars, splitVars>>

\* mainloop and the callback stores use the child and its output stream only
notLoopVars == <<idVars, TRACE_WISH, WISH, OUTPUT, SENDER, queue, writer, writerMsg,
                 wire, chPc, chIdx, sends, starts, chInv, enq, askVars, splitVars>>

\* ask_wish uses the channel, the threads' positions and the child
notAskVars == <<idVars, loopVars, TRACE_WISH, WISH, OUTPUT, SENDER, childAlive, writer,
                writerMsg, wire, chIdx, sends, starts, chInv, enq, splitVars>>

notSplitVars == <<idVars, chanVars, loopVars, askVars>>

(***************************************************************************)
(* Text helpers: the str methods the code uses.                            *)
(***************************************************************************)
None == "none"

WhiteSpace == {" ", "\n", "\r", "\t"}

DigitChars == <<"0", "1", "2", "3", "4", "5", "6", "7", "8", "9">>

IsDigit(c) == \E i \in 1..10 : DigitChars[i] = c

DigitVal(c) == (CHOOSE i \in 1..10 : DigitChars[i] = c) - 1

\* format!("{}", n) of a non-negative integer: its decimal digits
RECURSIVE FmtNat(_)
FmtNat(n) ==
    IF n < 10 THEN <<DigitChars[n + 1]>>
    ELSE Append(FmtNat(n \div 10), DigitChars[(n % 10) + 1])

\* format!("{}", n) of an i64
FmtInt(n) == IF n < 0 THEN <<"-">> \o FmtNat(0 - n) ELSE FmtNat(n)

\* the value of a non-empty sequence of decimal digits
RECURSIVE DigitsVal(_)
DigitsVal(s) ==
    IF Len(s) = 0 THEN 0
    ELSE 10 * DigitsVal(SubSeq(s, 1, Len(s) - 1)) + DigitVal(s[Len(s)])

AllDigits(s) == Len(s) > 0 /\ \A i \in 1..Len(s) : IsDigit(s[i])

\* str::starts_with
StartsWith(s, p) == Len(s) >= Len(p) /\ SubSeq(s, 1, Len(p)) = p

\* str::contains
Contains(s, p) ==
    \E i \in 0..(Len(s) - Len(p)) : SubSeq(s, i + 1, i + Len(p)) = p

\* str::find with a set of characters: the 0-based index of the first
\* character in cs, or -1 for Option::None
FindAny(s, cs) ==
    IF \E i \in 1..Len(s) : s[i] \in cs
    THEN (CHOOSE i \in 1..Len(s) : s[i] \in cs /\ \A j \in 1..(i - 1) : s[j] \notin cs) - 1
    ELSE -1

\* str::trim
TrimStart(s) ==
    IF \A i \in 1..Len(s) : s[i] \in WhiteSpace THEN <<>>
    ELSE SubSeq(s, (CHOOSE i \in 1..Len(s) :
                       s[i] \notin WhiteSpace /\ \A j \in 1..(i - 1) : s[j] \in WhiteSpace),
                Len(s))

TrimEnd(s) ==
    IF \A i \in 1..Len(s) : s[i] \in WhiteSpace THEN <<>>
    ELSE SubSeq(s, 1, CHOOSE i \in 1..Len(s) :
                       s[i] \notin WhiteSpace /\ \A j \in (i + 1)..Len(s) : s[j] \in WhiteSpace)

Trim(s) == TrimEnd(TrimStart(s))

\* str::split(c).collect(): the pieces between the occurrences of c
RECURSIVE Split(_, _)
Split(s, c) ==
    LET n == FindAny(s, {c})
    IN  IF n < 0 THEN <<s>>
        ELSE <<SubSeq(s, 1, n)>> \o Split(SubSeq(s, n + 2, Len(s)), c)

(***************************************************************************)
(* The identifier counter: next_static_id, next_wid, next_var, current_id. *)
(***************************************************************************)
IdThreads == 1..NIdThreads

Root == <<".">>

\* parent arguments passed to next_wid
Parents == {Root, <<".", "r", "1">>, <<>>}

NoCall == [fn |-> None, parent |-> <<>>]

\* no call has returned yet
NoResult == [fn |-> None, parent |-> <<>>, n |-> 0, str |-> <<>>, seq |-> 0]

\* Mutex::lock succeeds only when no thread holds the guard
IdLockFree_NoMutex == TRUE
IdLockFree == idLock = 0

\* format!(".r{}", nid) / format!("{}.r{}", parent, nid)
FormatWid(parent, nid) ==
    IF parent = Root THEN <<".", "r">> \o FmtInt(nid)
    ELSE parent \o <<".", "r">> \o FmtInt(nid)

\* format!("::var{}", nid)
FormatVar(nid) == <<":", ":", "v", "a", "r">> \o FmtInt(nid)

\* next_static_id().lock().unwrap() at the head of the three functions
IdLockAcquire(t, fn, parent) ==
    /\ idPc[t] = "idle"
    /\ idCalls < MaxIdCalls
    /\ IdLockFree
    /\ idLock' = t
    /\ idCalls' = idCalls + 1
    /\ idCall' = [idCall EXCEPT ![t] = [fn |-> fn, parent |-> parent]]
    /\ idPc' = [idPc EXCEPT ![t] = IF fn = "current_id" THEN "format" ELSE "inc"]
    /\ UNCHANGED <<NEXT_ID, idLast, idHeld>>
    /\ UNCHANGED notIdVars

\* the amount next_wid and next_var add to the counter: *nid += 1
IdStep_VarKeeps(fn) == IF fn = "next_var" THEN 0 ELSE 1
IdStep(fn) == 1

\* *nid += 1
IdIncrement(t) ==
    /\ idPc[t] = "inc"
    /\ NEXT_ID' = NEXT_ID + IdStep(idCall[t].fn)
    /\ idPc' = [idPc EXCEPT ![t] = "format"]
    /\ UNCHANGED <<idLock, idCall, idCalls, idLast, idHeld>>
    /\ UNCHANGED notIdVars

\* what the function returns: the formatted string, or the counter itself
IdResult(t) ==
    [fn     |-> idCall[t].fn,
     parent |-> idCall[t].parent,
     n      |-> NEXT_ID,
     str    |-> CASE idCall[t].fn = "next_wid" -> FormatWid(idCall[t].parent, NEXT_ID)
                  [] idCall[t].fn = "next_var" -> FormatVar(NEXT_ID)
                  [] OTHER -> <<>>,
     seq    |-> idLast.seq + 1]

\* the function formats its result and returns; the guard is dropped
IdReturn(t) ==
    /\ idPc[t] = "format"
    /\ idLast' = IdResult(t)
    /\ \/ idHeld' = idHeld
       \/ idLast # NoResult /\ idHeld' = idLast
    /\ idLock' = IF idLock = t THEN 0 ELSE idLock
    /\ idPc' = [idPc EXCEPT ![t] = "idle"]
    /\ idCall' = [idCall EXCEPT ![t] = NoCall]
    /\ UNCHANGED <<NEXT_ID, idCalls>>
    /\ UNCHANGED notIdVars

next_wid(t) == \E parent \in Parents : IdLockAcquire(t, "next_wid", parent)

next_var(t) == IdLockAcquire(t, "next_var", <<>>)

current_id(t) == IdLockAcquire(t, "current_id", <<>>)

(***************************************************************************)
(* Start-up and the outbound channel: start_with, trace_with,              *)
(* start_tk_connection, tell_wish and the writer thread.                   *)
(***************************************************************************)
Threads == 1..NThreads

\* the five statements start_tk_connection writes before the writer thread exists:
\* wm protocol, option add *tearOff, proc font_choice, proc scale_value, chan configure
NSetup == 5

SetupStmt(i) == [kind |-> "setup", t |-> 0, i |-> i]

\* the text of the i-th tell_wish of thread t
Cmd(t, i) == [kind |-> "cmd", t |-> t, i |-> i]

\* String::from("\n") sent by tell_wish, and b"\n" written by the writer thread
NewLine == [kind |-> "nl", t |-> 0, i |-> 0]

NoMsg == [kind |-> None, t |-> 0, i |-> 0]

\* OnceLock::set(..).is_ok() on TRACE_WISH
TraceSetOk_Always == TRUE
TraceSetOk == TRACE_WISH = "unset"

\* receiver.recv(): the oldest message leaves the channel
QueuePop_Newest(q) == [msg |-> q[Len(q)], rest |-> SubSeq(q, 1, Len(q) - 1)]
QueuePop(q) == [msg |-> Head(q), rest |-> Tail(q)]

\* the Receiver exists until the writer thread panics
ReceiverAlive == writer # "panicked"

SetStart(t, field, value) ==
    [starts EXCEPT ![chInv[t]] = [@ EXCEPT ![field] = value]]

\* start_with / trace_with: TRACE_WISH.set(..).is_ok() decides whether
\* start_tk_connection is entered
StartGuard(t) ==
    /\ chPc[t] = "idle"
    /\ Len(starts) < MaxStarts
    /\ IF TraceSetOk
       THEN /\ TRACE_WISH' = "set"
            /\ chPc' = [chPc EXCEPT ![t] = "spawn"]
            /\ chInv' = [chInv EXCEPT ![t] = Len(starts) + 1]
            /\ starts' = Append(starts, [thread |-> t, result |-> "running",
                                         spawned |-> FALSE, writer |-> FALSE])
       ELSE /\ starts' = Append(starts, [thread |-> t, result |-> "Err",
                                         spawned |-> FALSE, writer |-> FALSE])
            /\ UNCHANGED <<TRACE_WISH, chPc, chInv>>
    /\ UNCHANGED notChanVars
    /\ UNCHANGED <<WISH, OUTPUT, SENDER, childAlive, queue, writer, writerMsg, wire,
                   chIdx, sends, enq>>
    /\ UNCHANGED notChanVars

\* TRACE_WISH.set(false)
start_with(t) == StartGuard(t)

\* TRACE_WISH.set(true)
trace_with(t) == StartGuard(t)

\* process::Command::new(wish)...spawn() and WISH.set(wish_process)
StartSpawn(t) ==
    /\ chPc[t] = "spawn"
    /\ \/ \* the executable cannot be launched
          /\ starts' = SetStart(t, "result", "Err")
          /\ chPc' = [chPc EXCEPT ![t] = "idle"]
          /\ UNCHANGED <<WISH, childAlive>>
       \/ \* a child is running; WISH.set fails when WISH holds one already
          IF WISH = "unset"
          THEN /\ WISH' = "set"
               /\ childAlive' = TRUE
               /\ starts' = SetStart(t, "spawned", TRUE)
               /\ chPc' = [chPc EXCEPT ![t] = "streams"]
          ELSE /\ starts' = [starts EXCEPT ![chInv[t]] =
                                [@ EXCEPT !.spawned = TRUE, !.result = "Err"]]
               /\ chPc' = [chPc EXCEPT ![t] = "idle"]
               /\ UNCHANGED <<WISH, childAlive>>
    /\ UNCHANGED <<TRACE_WISH, OUTPUT, SENDER, queue, writer, writerMsg, wire,
                   chIdx, sends, chInv, enq>>
    /\ UNCHANGED notChanVars

\* stdin.take() and OUTPUT.set(stdout.take())
StartStreams_PublishFirst(t) ==
    /\ chPc[t] = "streams"
    /\ IF OUTPUT = "unset"
       THEN /\ OUTPUT' = "set"
            /\ SENDER' = "set"
            /\ chPc' = [chPc EXCEPT ![t] = "setup"]
            /\ chIdx' = [chIdx EXCEPT ![t] = 1]
            /\ UNCHANGED starts
       ELSE /\ starts' = SetStart(t, "result", "Err")
            /\ chPc' = [chPc EXCEPT ![t] = "idle"]
            /\ UNCHANGED <<OUTPUT, SENDER, chIdx>>
    /\ UNCHANGED <<TRACE_WISH, WISH, childAlive, queue, writer, writerMsg, wire,
                   sends, chInv, enq>>
    /\ UNCHANGED notChanVars
StartStreams(t) ==
    /\ chPc[t] = "streams"
    /\ IF OUTPUT = "unset"
       THEN /\ OUTPUT' = "set"
            /\ chPc' = [chPc EXCEPT ![t] = "setup"]
            /\ chIdx' = [chIdx EXCEPT ![t] = 1]
            /\ UNCHANGED starts
       ELSE /\ starts' = SetStart(t, "result", "Err")
            /\ chPc' = [chPc EXCEPT ![t] = "idle"]
            /\ UNCHANGED <<OUTPUT, chIdx>>
    /\ UNCHANGED <<TRACE_WISH, WISH, SENDER, childAlive, queue, writer, writerMsg, wire,
                   sends, chInv, enq>>
    /\ UNCHANGED notChanVars

\* input.write_all(<setup statement>).unwrap(): a failed write panics
StartSetup(t) ==
    /\ chPc[t] = "setup"
    /\ IF childAlive
       THEN /\ wire' = Append(wire, SetupStmt(chIdx[t]))
            /\ chIdx' = [chIdx EXCEPT ![t] = @ + 1]
            /\ chPc' = [chPc EXCEPT ![t] = IF chIdx[t] = NSetup THEN "channel" ELSE "setup"]
            /\ UNCHANGED starts
       ELSE /\ starts' = SetStart(t, "result", "panic")
            /\ chPc' = [chPc EXCEPT ![t] = "panicked"]
            /\ UNCHANGED <<wire, chIdx>>
    /\ UNCHANGED <<TRACE_WISH, WISH, OUTPUT, SENDER, childAlive, queue, writer, writerMsg,
                   sends, chInv, enq>>
    /\ UNCHANGED notChanVars

\* mpsc::channel() and SENDER.set(sender).expect(..)
StartChannel(t) ==
    /\ chPc[t] = "channel"
    /\ IF SENDER = "unset"
       THEN /\ SENDER' = "set"
            /\ chPc' = [chPc EXCEPT ![t] = "thread"]
            /\ UNCHANGED starts
       ELSE /\ starts' = SetStart(t, "result", "panic")
            /\ chPc' = [chPc EXCEPT ![t] = "panicked"]
            /\ UNCHANGED SENDER
    /\ UNCHANGED <<TRACE_WISH, WISH, OUTPUT, childAlive, queue, writer, writerMsg, wire,
                   chIdx, sends, chInv, enq>>
    /\ UNCHANGED notChanVars

\* thread::spawn(move || loop { .. }) and Ok(TkTopLevel)
StartThread(t) ==
    /\ chPc[t] = "thread"
    /\ writer' = "recv"
    /\ starts' = [starts EXCEPT ![chInv[t]] = [@ EXCEPT !.writer = TRUE, !.result = "Ok"]]
    /\ chPc' = [chPc EXCEPT ![t] = "idle"]
    /\ UNCHANGED <<TRACE_WISH, WISH, OUTPUT, SENDER, childAlive, queue, writerMsg, wire,
                   chIdx, sends, chInv, enq>>
    /\ UNCHANGED notChanVars

\* SENDER.get_mut().unwrap().send(..).unwrap(): panics when SENDER is unset
\* or the Receiver is gone, otherwise the message joins the channel
ChannelSend_Rendezvous(t, msg, next) ==
    IF SENDER = "set" /\ ReceiverAlive
    THEN /\ Len(queue) = 0
         /\ queue' = Append(queue, msg)
         /\ chPc' = [chPc EXCEPT ![t] = next]
    ELSE /\ chPc' = [chPc EXCEPT ![t] = "panicked"]
         /\ UNCHANGED queue
ChannelSend(t, msg, next) ==
    IF SENDER = "set" /\ ReceiverAlive
    THEN /\ queue' = Append(queue, msg)
         /\ chPc' = [chPc EXCEPT ![t] = next]
    ELSE /\ chPc' = [chPc EXCEPT ![t] = "panicked"]
         /\ UNCHANGED queue

\* tell_wish: send(String::from(msg))
TellSendMsg(t) ==
    /\ chPc[t] = "idle"
    /\ Len(enq) < MaxSends
    /\ sends' = [sends EXCEPT ![t] = @ + 1]
    /\ ChannelSend(t, Cmd(t, sends[t] + 1), "tell_nl")
    /\ enq' = IF SENDER = "set" /\ ReceiverAlive THEN Append(enq, Cmd(t, sends[t] + 1)) ELSE enq
    /\ UNCHANGED <<TRACE_WISH, WISH, OUTPUT, SENDER, childAlive, writer, writerMsg, wire,
                   chIdx, starts, chInv>>
    /\ UNCHANGED notChanVars

\* tell_wish: send(String::from("\n"))
TellSendNl(t) ==
    /\ chPc[t] = "tell_nl"
    /\ ChannelSend(t, NewLine, "idle")
    /\ UNCHANGED <<TRACE_WISH, WISH, OUTPUT, SENDER, childAlive, writer, writerMsg, wire,
                   chIdx, sends, starts, chInv, enq>>
    /\ UNCHANGED notChanVars

\* the writer thread: receiver.recv() returns the next message
WriterRecv ==
    /\ writer = "recv"
    /\ Len(queue) > 0
    /\ writerMsg' = QueuePop(queue).msg
    /\ queue' = QueuePop(queue).rest
    /\ writer' = "write_msg"
    /\ UNCHANGED <<TRACE_WISH, WISH, OUTPUT, SENDER, childAlive, wire, chPc, chIdx, sends,
                   starts, chInv, enq>>
    /\ UNCHANGED notChanVars

\* the writer thread: input.write_all(msg.as_bytes()).unwrap()
WriterWriteMsg ==
    /\ writer = "write_msg"
    /\ IF childAlive
       THEN /\ wire' = Append(wire, writerMsg)
            /\ writer' = "write_nl"
            /\ UNCHANGED <<queue, writerMsg>>
       ELSE /\ writer' = "panicked"
            /\ queue' = <<>>
            /\ writerMsg' = NoMsg
            /\ UNCHANGED wire
    /\ UNCHANGED <<TRACE_WISH, WISH, OUTPUT, SENDER, childAlive, chPc, chIdx, sends,
                   starts, chInv, enq>>
    /\ UNCHANGED notChanVars

\* the writer thread: input.write_all(b"\n").unwrap()
WriterWriteNl ==
    /\ writer = "write_nl"
    /\ IF childAlive
       THEN /\ wire' = Append(wire, NewLine)
            /\ writer' = "recv"
            /\ UNCHANGED queue
       ELSE /\ writer' = "panicked"
            /\ queue' = <<>>
            /\ UNCHANGED wire
    /\ writerMsg' = NoMsg
    /\ UNCHANGED <<TRACE_WISH, WISH, OUTPUT, SENDER, childAlive, chPc, chIdx, sends,
                   starts, chInv, enq>>
    /\ UNCHANGED notChanVars

\* the child process ends (it is killed, or it exits by itself)
ChildDies ==
    /\ childAlive
    /\ childAlive' = FALSE
    /\ UNCHANGED <<TRACE_WISH, WISH, OUTPUT, SENDER, queue, writer, writerMsg, wire,
                   chPc, chIdx, sends, starts, chInv, enq>>
    /\ UNCHANGED notChanVars

InitChan ==
    /\ TRACE_WISH = "unset"
    /\ WISH = "unset"
    /\ OUTPUT = "unset"
    /\ SENDER = "unset"
    /\ childAlive = FALSE
    /\ queue = <<>>
    /\ writer = "none"
    /\ writerMsg = NoMsg
    /\ wire = <<>>
    /\ chPc = [t \in Threads |-> "idle"]
    /\ chIdx = [t \in Threads |-> 0]
    /\ sends = [t \in Threads |-> 0]
    /\ starts = <<>>
    /\ chInv = [t \in Threads |-> 0]
    /\ enq = <<>>

(***************************************************************************)
(* The text mainloop reads: what the child writes, and how it is parsed.   *)
(***************************************************************************)
Store0 == "CALLBACKS0"

StoreBool == "CALLBACKS1BOOL"

StoreEvent == "CALLBACKS1EVENT"

StoreFloat == "CALLBACKS1FLOAT"

StoreFont == "CALLBACKS1FONT"

Stores == {Store0, StoreBool, StoreEvent, StoreFloat, StoreFont}

\* widget::TkEvent, built field by field in mainloop
TkEvent(x, y, root_x, root_y, height, width, key_code, key_symbol, mouse_button) ==
    [x |-> x, y |-> y, root_x |-> root_x, root_y |-> root_y, height |-> height,
     width |-> width, key_code |-> key_code, key_symbol |-> key_symbol,
     mouse_button |-> mouse_button]

NoEvent == TkEvent(0, 0, 0, 0, 0, 0, 0, <<>>, 0)

\* the argument a closure is called with: none, a bool, a TkEvent, an f64
\* (in thousandths) or a TkFont (its description)
Arg(kind, b, ev, fl, font) == [kind |-> kind, b |-> b, ev |-> ev, fl |-> fl, font |-> font]

NoArg == Arg("none", FALSE, NoEvent, 0, <<>>)

BoolArg(b) == Arg("bool", b, NoEvent, 0, <<>>)

EventArg(ev) == Arg("event", FALSE, ev, 0, <<>>)

FloatArg(fl) == Arg("float", FALSE, NoEvent, fl, <<>>)

FontArg(font) == Arg("font", FALSE, NoEvent, 0, font)

\* str::parse::<i64>(): an optional sign and decimal digits, nothing else
ParseI64(s) ==
    IF Len(s) > 0 /\ s[1] \in {"+", "-"}
    THEN IF AllDigits(Tail(s))
         THEN [ok |-> TRUE, val |-> IF s[1] = "-" THEN 0 - DigitsVal(Tail(s)) ELSE DigitsVal(Tail(s))]
         ELSE [ok |-> FALSE, val |-> 0]
    ELSE IF AllDigits(s) THEN [ok |-> TRUE, val |-> DigitsVal(s)]
         ELSE [ok |-> FALSE, val |-> 0]

\* str::parse::<u64>(): an optional + and decimal digits, nothing else
ParseU64(s) ==
    IF Len(s) > 0 /\ s[1] = "+"
    THEN IF AllDigits(Tail(s)) THEN [ok |-> TRUE, val |-> DigitsVal(Tail(s))]
         ELSE [ok |-> FALSE, val |-> 0]
    ELSE IF AllDigits(s) THEN [ok |-> TRUE, val |-> DigitsVal(s)]
         ELSE [ok |-> FALSE, val |-> 0]

\* the digits of a fraction as thousandths: "5" is 500, "25" is 250
FracMilli(d) ==
    CASE Len(d) = 0 -> 0
      [] Len(d) = 1 -> 100 * DigitsVal(d)
      [] Len(d) = 2 -> 10 * DigitsVal(d)
      [] OTHER -> DigitsVal(SubSeq(d, 1, 3))

\* str::parse::<f64>() of decimal text: an optional sign, digits, and an
\* optional point with digits; the value is given in thousandths
ParseF64(s) ==
    LET signed   == Len(s) > 0 /\ s[1] \in {"+", "-"}
        body     == IF signed THEN Tail(s) ELSE s
        dot      == FindAny(body, {"."})
        whole    == IF dot < 0 THEN body ELSE SubSeq(body, 1, dot)
        frac     == IF dot < 0 THEN <<>> ELSE SubSeq(body, dot + 2, Len(body))
        digitsOk == /\ Len(whole) + Len(frac) > 0
                    /\ \A i \in 1..Len(whole) : IsDigit(whole[i])
                    /\ \A i \in 1..Len(frac) : IsDigit(frac[i])
        mag      == 1000 * DigitsVal(whole) + FracMilli(frac)
    IN  IF digitsOk
        THEN [ok |-> TRUE, val |-> IF signed /\ s[1] = "-" THEN 0 - mag ELSE mag]
        ELSE [ok |-> FALSE, val |-> 0]

\* unwrap_or(0) / unwrap_or(0.0)
UnwrapOr0(r) == IF r.ok THEN r.val ELSE 0

\* let mut input = [32; 10000]; read(&mut input): the bytes read, then spaces
ReadBuf(data) == data \o [i \in 1..(BufSize - Len(data)) |-> " "]

PClicked == <<"c", "l", "i", "c", "k", "e", "d">>

PCb1b == <<"c", "b", "1", "b">>

PCb1e == <<"c", "b", "1", "e">>

PCb1f == <<"c", "b", "1", "f">>

PFont == <<"f", "o", "n", "t">>

PExit == <<"e", "x", "i", "t">>

\* the marker of a callback that applies once only
After == <<"a", "f", "t", "e", "r">>

FontKey == PFont

\* font.parse::<font::TkFont>(): a description is a list of -option value pairs
FontParseOk(desc) == StartsWith(desc, <<"-">>)

\* what mainloop decides to do with one buffer it has read
Eval(store, key, arg) == [act |-> "eval", store |-> store, key |-> key, arg |-> arg]

Skip == [act |-> "skip", store |-> None, key |-> <<>>, arg |-> NoArg]

Panic == [act |-> "panic", store |-> None, key |-> <<>>, arg |-> NoArg]

Exit == [act |-> "exit", store |-> None, key |-> <<>>, arg |-> NoArg]

\* value == "1", on the trimmed third part
BoolValue_NoTrim(part) == part = <<"1">>
BoolValue(part) == Trim(part) = <<"1">>

\* the clicked branch: &input[8..n] up to the first line break
ClassifyClicked(input) ==
    LET n == FindAny(input, {"\n", "\r"})
    IN  IF n < 0 THEN Skip
        ELSE IF n < 8 THEN Panic
        ELSE Eval(Store0, SubSeq(input, 9, n), NoArg)

\* the cb1b branch
ClassifyBool(input) ==
    LET parts == Split(input, "-")
    IN  IF Len(parts) < 3 THEN Panic
        ELSE Eval(StoreBool, Trim(parts[2]), BoolArg(BoolValue(parts[3])))

\* the cb1e branch
ClassifyEvent(input) ==
    LET parts == Split(input, ":")
    IN  IF Len(parts) < 11 THEN Panic
        ELSE Eval(StoreEvent, Trim(parts[2]),
                  EventArg(TkEvent(UnwrapOr0(ParseI64(parts[3])),
                                   UnwrapOr0(ParseI64(parts[4])),
                                   UnwrapOr0(ParseI64(parts[5])),
                                   UnwrapOr0(ParseI64(parts[6])),
                                   UnwrapOr0(ParseI64(parts[7])),
                                   UnwrapOr0(ParseI64(parts[8])),
                                   UnwrapOr0(ParseU64(parts[9])),
                                   parts[10],
                                   UnwrapOr0(ParseU64(parts[11])))))

\* the cb1f branch
ClassifyFloat(input) ==
    LET parts == Split(input, "-")
    IN  IF Len(parts) < 3 THEN Panic
        ELSE Eval(StoreFloat, Trim(parts[2]), FloatArg(UnwrapOr0(ParseF64(Trim(parts[3])))))

\* the font branch
ClassifyFont(input) ==
    LET font == Trim(SubSeq(input, Len(PFont) + 1, Len(input)))
    IN  IF FontParseOk(font) THEN Eval(StoreFont, FontKey, FontArg(font)) ELSE Skip

\* no branch of the chain is taken: the next iteration
Unrecognised_Exits == Exit
Unrecognised == Skip

\* the if / else-if chain of mainloop on the prefix of the buffer
Classify(input) ==
    CASE StartsWith(input, PClicked) -> ClassifyClicked(input)
      [] StartsWith(input, PCb1b) -> ClassifyBool(input)
      [] StartsWith(input, PCb1e) -> ClassifyEvent(input)
      [] StartsWith(input, PCb1f) -> ClassifyFloat(input)
      [] StartsWith(input, PFont) -> ClassifyFont(input)
      [] StartsWith(input, PExit) -> Exit
      [] OTHER -> Unrecognised

\* the widgets and patterns of the application
KeyB1 == <<".", "b", "1">>

KeyAfter == <<"a", "f", "t", "e", "r", "1">>

KeyCb2 == <<".", "c", "b", "2">>

KeyS1 == <<".", "s", "1">>

KeyNone == <<".", "z">>

\* the lines the child writes: toplevel.rs bind (clicked-), and the cb1b, cb1e,
\* cb1f, font and exit lines of the table of notification lines
ClickLine(key) == PClicked \o <<"-">> \o key \o <<"\n">>

BoolLine(key, b) == PCb1b \o <<"-">> \o key \o <<"-">> \o (IF b THEN <<"1">> ELSE <<"0">>) \o <<"\n">>

EventLine(pattern, ev) ==
    PCb1e \o <<":">> \o pattern \o <<":">> \o FmtInt(ev.x) \o <<":">> \o FmtInt(ev.y)
          \o <<":">> \o FmtInt(ev.root_x) \o <<":">> \o FmtInt(ev.root_y)
          \o <<":">> \o FmtInt(ev.height) \o <<":">> \o FmtInt(ev.width)
          \o <<":">> \o FmtInt(ev.key_code) \o <<":">> \o ev.key_symbol
          \o <<":">> \o FmtInt(ev.mouse_button) \o <<"\n">>

\* a value in thousandths as Tcl prints it: 2500 is 2.5
FmtMilli(v) ==
    LET mag  == IF v < 0 THEN 0 - v ELSE v
        frac == mag % 1000
        fd   == IF frac % 100 = 0 THEN FmtNat(frac \div 100)
                ELSE IF frac % 10 = 0 THEN (IF frac < 100 THEN <<"0">> ELSE <<>>) \o FmtNat(frac \div 10)
                ELSE (IF frac < 10 THEN <<"0", "0">> ELSE IF frac < 100 THEN <<"0">> ELSE <<>>)
                     \o FmtNat(frac)
    IN  (IF v < 0 THEN <<"-">> ELSE <<>>) \o FmtNat(mag \div 1000) \o <<".">> \o fd

FloatLine(key, v) == PCb1f \o <<"-">> \o key \o <<"-">> \o FmtMilli(v) \o <<"\n">>

FontLine(desc) == PFont \o <<" ">> \o desc \o <<"\n">>

ExitLine == PExit \o <<"\n">>

\* what the child meant by a line: the store, the key and the argument
Note(kind, key, arg) == [kind |-> kind, key |-> key, arg |-> arg]

NoNote == Note(None, <<>>, NoArg)

\* the event of the example line cb1e:.b1:10:20:110:220:50:80:65:a:1
Event1 == TkEvent(10, 20, 110, 220, 50, 80, 65, <<"a">>, 1)

\* a pointer event left of and above the widget, button 3
Event2 == TkEvent(-3, -12, 7, 0, 5, 8, 0, <<"?", "?">>, 3)

FontDesc == <<"-", "s", "i", "z", "e", " ", "9">>

\* one read(&mut input) of the child's output: its result, the bytes it put
\* in the buffer, and what the child meant
Read(res, data, n) == [res |-> res, data |-> data, note |-> n]

LoopReads ==
    {Read("ok", ClickLine(k), Note("click", k, NoArg)) : k \in {KeyB1, KeyAfter, KeyNone}}
    \cup {Read("ok", BoolLine(KeyCb2, b), Note("bool", KeyCb2, BoolArg(b))) : b \in BOOLEAN}
    \cup {Read("ok", EventLine(KeyB1, ev), Note("event", KeyB1, EventArg(ev))) : ev \in {Event1, Event2}}
    \cup {Read("ok", FloatLine(KeyS1, v), Note("float", KeyS1, FloatArg(v))) : v \in {2500, 250}}
    \cup {Read("ok", FontLine(FontDesc), Note("font", FontKey, FontArg(FontDesc))),
          Read("ok", FontLine(<<>>), Note("font", FontKey, FontArg(<<>>))),
          Read("ok", ExitLine, Note("exit", <<>>, NoArg)),
          \* the reply to a query, a click line cut short, a cb1b line without a value
          Read("ok", <<"o", "k", "\n">>, NoNote),
          Read("ok", PClicked \o <<"\n">>, NoNote),
          Read("ok", PCb1b \o <<"-">> \o KeyCb2 \o <<"\n">>, NoNote),
          \* a cb1e line with one field, a cb1f line without a value
          Read("ok", PCb1e \o <<":">> \o KeyB1 \o <<":", "1", "0", "\n">>, NoNote),
          Read("ok", PCb1f \o <<"-">> \o KeyS1 \o <<"\n">>, NoNote),
          \* end of stream, a failed read, bytes that are not UTF-8
          Read("ok", <<>>, NoNote),
          Read("err", <<>>, NoNote),
          Read("not_utf8", <<>>, NoNote)}

\* notification lines for a key that contains "after", one for each store
\* mainloop looks a key up in
MarkerReads ==
    {Read("ok", ClickLine(KeyAfter), Note("click", KeyAfter, NoArg)),
     Read("ok", BoolLine(KeyAfter, TRUE), Note("bool", KeyAfter, BoolArg(TRUE))),
     Read("ok", EventLine(KeyAfter, Event1), Note("event", KeyAfter, EventArg(Event1))),
     Read("ok", FloatLine(KeyAfter, 2500), Note("float", KeyAfter, FloatArg(2500)))}

\* the lines of a scale from -2.5 to 2.5 (proc scale_value: puts cb1f-$w-$value)
ScaleReads ==
    {Read("ok", FloatLine(KeyS1, v), Note("float", KeyS1, FloatArg(v))) :
        v \in {2500, 250, 0, 0 - 250, 0 - 2500}}

\* one read that delivers two lines the child wrote one after the other: the
\* note is what the child meant by the first of them
ChunkReads ==
    LET lines == {Read("ok", ClickLine(KeyB1), Note("click", KeyB1, NoArg)),
                  Read("ok", BoolLine(KeyCb2, TRUE), Note("bool", KeyCb2, BoolArg(TRUE))),
                  Read("ok", FloatLine(KeyS1, 2500), Note("float", KeyS1, FloatArg(2500)))}
    IN  {Read("ok", a.data \o b.data, a.note) : a \in lines, b \in lines}

Reads == LoopReads \cup MarkerReads \cup ScaleReads \cup ChunkReads

(***************************************************************************)
(* The callback stores and mainloop.                                       *)
(***************************************************************************)
\* the closures of the application; "h" registers "g" under the key it was
\* called for, in the store it was called from
Closures == {"f", "g", "h"}

Rebinds(c) == IF c = "h" THEN "g" ELSE None

\* what application threads register, and where
Registrable ==
    {<<Store0, KeyB1>>, <<Store0, KeyAfter>>, <<StoreBool, KeyCb2>>, <<StoreEvent, KeyB1>>,
     <<StoreFloat, KeyS1>>, <<StoreFont, FontKey>>}

NoDispatch == [store |-> None, key |-> <<>>, clo |-> None, arg |-> NoArg]

NoRebound == [store |-> None, key |-> <<>>, clo |-> None, phase |-> None, by |-> None]

NoHist == [clo |-> None, regs |-> 0, clicks |-> 0, calls |-> 0]

\* HashMap::insert
Insert(map, key, clo) == [k \in DOMAIN map \cup {key} |-> IF k = key THEN clo ELSE map[k]]

\* HashMap::remove_entry
Remove(map, key) == [k \in DOMAIN map \ {key} |-> map[k]]

\* a registration by the application (not the re-insertion by eval_callback*)
\* as the history sees it
HistRegister(store, key, clo) ==
    IF store = Store0 /\ key \in DOMAIN hist
    THEN [hist EXCEPT ![key] =
            IF @.regs = 0 THEN [clo |-> clo, regs |-> 1, clicks |-> 0, calls |-> 0]
            ELSE [@ EXCEPT !.regs = 2]]
    ELSE hist

\* add_callback0 / add_callback1_bool / .._event / .._float / .._font, called
\* by a thread of the application
AppRegister(store, key, clo) ==
    /\ ended # "exited"
    /\ nRegs < MaxRegs
    /\ nRegs' = nRegs + 1
    /\ callbacks' = [callbacks EXCEPT ![store] = Insert(@, key, clo)]
    /\ hist' = HistRegister(store, key, clo)
    /\ rebound' = IF cur.store = store /\ cur.key = key
                  THEN [store |-> store, key |-> key, clo |-> clo, phase |-> "armed",
                        by |-> "thread"]
                  ELSE IF rebound.store = store /\ rebound.key = key THEN NoRebound
                       ELSE rebound
    /\ UNCHANGED <<lp, cur, kills, ended, note, loopHolds, childAlive>>
    /\ UNCHANGED notLoopVars

\* mainloop is called: OUTPUT.get_mut().unwrap() panics before a start
MainloopEnter ==
    /\ ended # "exited"
    /\ lp = "off"
    /\ lp' = IF OUTPUT = "set" THEN "read" ELSE "panicked"
    /\ UNCHANGED <<callbacks, cur, kills, ended, nRegs, note, hist, rebound, loopHolds, childAlive>>
    /\ UNCHANGED notLoopVars

\* eval_callback*: get_callback* takes the entry out of the store, if any
EvalStart_Expect(d) ==
    IF d.key \in DOMAIN callbacks[d.store]
    THEN [lp |-> "call",
          cur |-> [store |-> d.store, key |-> d.key, clo |-> callbacks[d.store][d.key],
                   arg |-> d.arg],
          callbacks |-> [callbacks EXCEPT ![d.store] = Remove(@, d.key)]]
    ELSE [lp |-> "panicked", cur |-> NoDispatch, callbacks |-> callbacks]
EvalStart_Detached(d) ==
    IF d.key \in DOMAIN callbacks[d.store]
    THEN [lp |-> "read",
          cur |-> [store |-> d.store, key |-> d.key, clo |-> callbacks[d.store][d.key],
                   arg |-> d.arg],
          callbacks |-> [callbacks EXCEPT ![d.store] = Remove(@, d.key)]]
    ELSE [lp |-> "read", cur |-> NoDispatch, callbacks |-> callbacks]
EvalStart(d) ==
    IF d.key \in DOMAIN callbacks[d.store]
    THEN [lp |-> "call",
          cur |-> [store |-> d.store, key |-> d.key, clo |-> callbacks[d.store][d.key],
                   arg |-> d.arg],
          callbacks |-> [callbacks EXCEPT ![d.store] = Remove(@, d.key)]]
    ELSE [lp |-> "read", cur |-> NoDispatch, callbacks |-> callbacks]

\* the Mutexes still locked when get_callback* has returned: its guard is a
\* temporary of get_callback*, dropped before eval_callback* calls the closure
HeldAfterGet_GuardKept(store) == {store}
HeldAfterGet(store) == {}

\* the Mutexes a closure locks while it runs: "h" registers a closure in
\* the store it was called from and takes a widget identifier
ClosureLocks(clo, store) == IF Rebinds(clo) # None THEN {store, "NEXT_ID"} ELSE {}

\* the exit branch: kill_wish() and return
ExitBranch_NoReturn == [lp |-> "read", kills |-> 1]
ExitBranch == [lp |-> "stopped", kills |-> 1]

\* what mainloop does with the result of one read
Decide(rd) == IF rd.res = "ok" THEN Classify(ReadBuf(rd.data)) ELSE Skip

\* the same, for every read of Reads
Decisions == [rd \in Reads |-> Decide(rd)]

CountsClick(d) == d.act = "eval" /\ d.store = Store0 /\ d.key \in DOMAIN hist /\ hist[d.key].regs > 0

\* one iteration of mainloop up to the call of the closure: read, from_utf8,
\* the branch on the prefix, and get_callback* inside eval_callback*
LoopRead(rd) ==
    /\ ended # "exited"
    /\ lp = "read"
    /\ note' = rd.note
    /\ LET d == Decisions[rd]
       IN  CASE d.act = "skip" ->
                  UNCHANGED <<callbacks, lp, cur, kills, hist, rebound, loopHolds, childAlive>>
             [] d.act = "panic" ->
                  /\ lp' = "panicked"
                  /\ UNCHANGED <<callbacks, cur, kills, hist, rebound, loopHolds, childAlive>>
             [] d.act = "exit" ->
                  /\ lp' = ExitBranch.lp
                  /\ kills' = [kills EXCEPT !.loop = @ + ExitBranch.kills]
                  /\ childAlive' = FALSE
                  /\ UNCHANGED <<callbacks, cur, hist, rebound, loopHolds>>
             [] d.act = "eval" ->
                  /\ CountsClick(d) => hist[d.key].clicks < MaxClicks
                  /\ lp' = EvalStart(d).lp
                  /\ cur' = EvalStart(d).cur
                  /\ callbacks' = EvalStart(d).callbacks
                  /\ hist' = IF CountsClick(d)
                             THEN [hist EXCEPT ![d.key].clicks = @ + 1] ELSE hist
                  /\ rebound' = IF /\ EvalStart(d).lp = "call"
                                   /\ rebound.store = d.store /\ rebound.key = d.key
                                THEN [rebound EXCEPT !.phase = "fired"] ELSE rebound
                  /\ loopHolds' = IF EvalStart(d).lp = "call" THEN HeldAfterGet(d.store)
                                  ELSE loopHolds
                  /\ UNCHANGED <<kills, childAlive>>
    /\ UNCHANGED <<ended, nRegs>>
    /\ UNCHANGED notLoopVars

\* command() / command(value): the closure runs on the thread of mainloop
LoopCall ==
    /\ ended # "exited"
    /\ lp = "call"
    /\ IF ClosureLocks(cur.clo, cur.store) \cap loopHolds # {}
       THEN \* Mutex::lock on a Mutex this thread holds: the thread blocks for ever
            /\ lp' = "deadlock"
            /\ UNCHANGED <<callbacks, rebound, hist, NEXT_ID, queue>>
       ELSE /\ lp' = "check"
            /\ IF Rebinds(cur.clo) # None
               THEN \* add_callback*(wid, g), next_wid(".") and tell_wish(..)
                    /\ IdLockFree
                    /\ SENDER = "set" /\ ReceiverAlive
                    /\ callbacks' = [callbacks EXCEPT
                                        ![cur.store] = Insert(@, cur.key, Rebinds(cur.clo))]
                    /\ rebound' = [store |-> cur.store, key |-> cur.key,
                                   clo |-> Rebinds(cur.clo), phase |-> "armed",
                                   by |-> "closure"]
                    /\ NEXT_ID' = NEXT_ID + IdStep("next_wid")
                    /\ queue' = queue \o <<Cmd(0, NEXT_ID'), NewLine>>
               ELSE /\ UNCHANGED <<callbacks, NEXT_ID, queue>>
                    /\ rebound' = IF rebound.phase = "fired" THEN NoRebound ELSE rebound
            /\ hist' = LET called == IF cur.store = Store0 /\ cur.key \in DOMAIN hist
                                          /\ hist[cur.key].clo = cur.clo
                                     THEN [hist EXCEPT ![cur.key].calls = @ + 1] ELSE hist
                       IN  IF Rebinds(cur.clo) # None /\ cur.store = Store0
                              /\ cur.key \in DOMAIN hist
                           THEN [called EXCEPT ![cur.key].regs = 2] ELSE called
    /\ UNCHANGED <<cur, kills, ended, nRegs, note, loopHolds, childAlive>>
    /\ UNCHANGED <<idLock, idPc, idCall, idCalls, idLast, idHeld>>
    /\ UNCHANGED <<TRACE_WISH, WISH, OUTPUT, SENDER, writer, writerMsg, wire, chPc, chIdx,
                   sends, starts, chInv, enq>>
    /\ UNCHANGED <<askVars, splitVars>>

\* the test after the call: the closure goes back into its store unless its
\* key says it applies once only (store 0) or the store holds the key again
NeedsReinsert_Always(store, key) == ~(store = Store0 /\ Contains(key, After))
NeedsReinsert_Never(store, key) == FALSE
NeedsReinsert_NoOneShot(store, key) == key \notin DOMAIN callbacks[store]
NeedsReinsert(store, key) ==
    /\ ~(store = Store0 /\ Contains(key, After))
    /\ key \notin DOMAIN callbacks[store]

\* !wid.contains("after") && !static_callbacks*().lock().unwrap().contains_key(wid)
LoopCheck ==
    /\ ended # "exited"
    /\ lp = "check"
    /\ IF cur.store \in loopHolds
       THEN lp' = "deadlock" /\ UNCHANGED cur
       ELSE IF NeedsReinsert(cur.store, cur.key)
            THEN lp' = "reinsert" /\ UNCHANGED cur
            ELSE lp' = "read" /\ cur' = NoDispatch
    /\ UNCHANGED <<callbacks, kills, ended, nRegs, note, hist, rebound, loopHolds, childAlive>>
    /\ UNCHANGED notLoopVars

\* add_callback*(wid, command) at the end of eval_callback*
LoopReinsert ==
    /\ ended # "exited"
    /\ lp = "reinsert"
    /\ callbacks' = [callbacks EXCEPT ![cur.store] = Insert(@, cur.key, cur.clo)]
    /\ lp' = "read"
    /\ cur' = NoDispatch
    /\ UNCHANGED <<kills, ended, nRegs, note, hist, rebound, loopHolds, childAlive>>
    /\ UNCHANGED notLoopVars

\* end_wish: kill_wish()
EndWishKill ==
    /\ ended = "no"
    /\ ended' = "killed"
    /\ kills' = [kills EXCEPT !.end = @ + 1]
    /\ childAlive' = FALSE
    /\ UNCHANGED <<callbacks, lp, cur, nRegs, note, hist, rebound, loopHolds>>
    /\ UNCHANGED notLoopVars

\* end_wish: process::exit(0)
EndWishExit ==
    /\ ended = "killed"
    /\ ended' = "exited"
    /\ UNCHANGED <<callbacks, lp, cur, kills, nRegs, note, hist, rebound, loopHolds, childAlive>>
    /\ UNCHANGED notLoopVars

InitCallbacks ==
    /\ callbacks = [s \in Stores |-> <<>>]
    /\ lp = "off"
    /\ cur = NoDispatch
    /\ kills = [loop |-> 0, end |-> 0]
    /\ ended = "no"
    /\ nRegs = 0
    /\ note = NoNote
    /\ hist = [k \in {KeyB1, KeyAfter} |-> NoHist]
    /\ rebound = NoRebound
    /\ loopHolds = {}

\* the state a successful start_with of thread 1 leaves
Started ==
    /\ TRACE_WISH = "set"
    /\ WISH = "set"
    /\ OUTPUT = "set"
    /\ SENDER = "set"
    /\ childAlive = TRUE
    /\ queue = <<>>
    /\ writer = "recv"
    /\ writerMsg = NoMsg
    /\ wire = [i \in 1..NSetup |-> SetupStmt(i)]
    /\ chPc = [t \in Threads |-> "idle"]
    /\ chIdx = [t \in Threads |-> IF t = 1 THEN NSetup + 1 ELSE 0]
    /\ sends = [t \in Threads |-> 0]
    /\ starts = <<[thread |-> 1, result |-> "Ok", spawned |-> TRUE, writer |-> TRUE]>>
    /\ chInv = [t \in Threads |-> IF t = 1 THEN 1 ELSE 0]
    /\ enq = <<>>

(***************************************************************************)
(* ask_wish, and the child as the writer of its stdout.                    *)
(***************************************************************************)
\* the queries of the application
Queries == 1..MaxQueries

\* the text of the tell_wish made by ask_wish for query q
Query(q) == [kind |-> "query", t |-> 0, i |-> q]

\* the line the child writes in reply to query q: puts of the value, which
\* Tcl may surround with blanks
ReplyLine(q) == <<" ", "r">> \o FmtNat(q) \o <<"\n">>

NoAnswer == [q |-> 0, text |-> <<>>]

Min(a, b) == IF a < b THEN a ELSE b

\* ask_wish: tell_wish(msg), first send
AskSendMsg(t) ==
    /\ chPc[t] = "idle"
    /\ \A u \in Threads : chPc[u] \notin {"ask_nl", "ask_read"}
    /\ lp = "off"
    /\ nAsks < MaxAsks
    /\ \E q \in Queries :
          /\ askQ' = q
          /\ ChannelSend(t, Query(q), "ask_nl")
    /\ nAsks' = nAsks + 1
    /\ UNCHANGED <<childOut, childPos, askRet, nNotes>>
    /\ UNCHANGED notAskVars

\* ask_wish: tell_wish(msg), second send
AskSendNl(t) ==
    /\ chPc[t] = "ask_nl"
    /\ ChannelSend(t, NewLine, "ask_read")
    /\ UNCHANGED askVars
    /\ UNCHANGED notAskVars

\* ask_wish: OUTPUT.read(&mut input) returns the bytes the pipe holds, at most
\* a buffer full; the return value is the buffer, trimmed
AskRead(t) ==
    /\ chPc[t] = "ask_read"
    /\ Len(childOut) > 0
    /\ LET n == Min(Len(childOut), BufSize)
       IN  /\ askRet' = [q |-> askQ, text |-> Trim(ReadBuf(SubSeq(childOut, 1, n)))]
           /\ childOut' = SubSeq(childOut, n + 1, Len(childOut))
    /\ askQ' = 0
    /\ chPc' = [chPc EXCEPT ![t] = "idle"]
    /\ UNCHANGED <<childPos, nAsks, nNotes, queue>>
    /\ UNCHANGED notAskVars

\* the child takes in the next write on its stdin; a query makes it write
\* its reply line
ChildExec ==
    /\ childAlive
    /\ childPos < Len(wire)
    /\ childPos' = childPos + 1
    /\ childOut' = IF wire[childPos + 1].kind = "query"
                   THEN childOut \o ReplyLine(wire[childPos + 1].i) ELSE childOut
    /\ UNCHANGED <<askRet, askQ, nAsks, nNotes, queue, chPc>>
    /\ UNCHANGED notAskVars

\* the user clicks the widget the bind of toplevel.rs was made for: the
\* child writes the click line by itself
UserClick ==
    /\ childAlive
    /\ nNotes < MaxNotes
    /\ nNotes' = nNotes + 1
    /\ childOut' = childOut \o ClickLine(KeyB1)
    /\ UNCHANGED <<childPos, askRet, askQ, nAsks, queue, chPc>>
    /\ UNCHANGED notAskVars

InitIds ==
    /\ NEXT_ID = 0
    /\ idLock = 0
    /\ idPc = [t \in IdThreads |-> "idle"]
    /\ idCall = [t \in IdThreads |-> NoCall]
    /\ idCalls = 0
    /\ idLast = NoResult
    /\ idHeld = NoResult

vars == <<idVars, chanVars, loopVars, askVars, splitVars>>

(***************************************************************************)
(* split_items.                                                            *)
(***************************************************************************)
\* str::split_whitespace: the maximal runs of non-whitespace, in order
RECURSIVE SplitWhitespaceFrom(_, _, _)
SplitWhitespaceFrom(s, i, word) ==
    IF i > Len(s) THEN (IF word = <<>> THEN <<>> ELSE <<word>>)
    ELSE IF s[i] \in WhiteSpace
         THEN (IF word = <<>> THEN <<>> ELSE <<word>>) \o SplitWhitespaceFrom(s, i + 1, <<>>)
         ELSE SplitWhitespaceFrom(s, i + 1, Append(word, s[i]))

SplitWhitespace(s) == SplitWhitespaceFrom(s, 1, <<>>)

\* what a call gives: a Vec<String>, or a panic
Returned(items) == [state |-> "returned", items |-> items]

Panicked(items) == [state |-> "panicked", items |-> items]

NotReturned == [state |-> "none", items |-> <<>>]

\* for word in remaining[..start].split_whitespace() { result.push(word) }
WordsBefore_Dropped(remaining, start) == <<>>
WordsBefore(remaining, start) == SplitWhitespace(SubSeq(remaining, 1, start))

\* the while loop of split_items, from one value of remaining and result
RECURSIVE SplitLoop(_, _)
SplitLoop(remaining, result) ==
    IF remaining = <<>> THEN Returned(result)
    ELSE LET start == FindAny(remaining, {"{"})
             end   == FindAny(remaining, {"}"})
         IN  IF start >= 0
             THEN LET words == result \o WordsBefore(remaining, start)
                  IN  IF end >= 0
                      THEN IF end < start + 1
                           THEN Panicked(words)
                           ELSE SplitLoop(Trim(SubSeq(remaining, end + 2, Len(remaining))),
                                          Append(words, SubSeq(remaining, start + 2, end)))
                      ELSE Returned(words)
             ELSE Returned(result \o SplitWhitespace(remaining))

split_items(text) == SplitLoop(Trim(text), <<>>)

\* the characters of the texts split_items is called with
SplitChars == {"a", "_", " ", "{", "}"}

\* the texts of tests::split_items_1 .. split_items_5
SplitTest1 == <<>>

SplitTest2 == <<"a", "b", "c">>

SplitTest3 == <<" ", " ", "a", "b", "c", " ", " ", "d", "e", "f", " ", " ">>

SplitTest4 == <<"{", "a", "b", "c", " ", "d", "e", "f", "}">>

SplitTest5 ==
    <<"{", "a", "b", "c", " ", "d", "e", "f", "}", " ", "x", "y", "_", "z", " ",
      "{", "a", "n", "o", "t", "h", "e", "r", "}">>

SplitTests == {SplitTest1, SplitTest2, SplitTest3, SplitTest4, SplitTest5}

SplitInputs == SplitTests \cup UNION {[1..n -> SplitChars] : n \in 0..MaxSplitLen}

\* a caller is about to call split_items(text)
InitSplit == splitText \in SplitInputs /\ splitRet = NotReturned

\* split_items(text) runs
SplitCall ==
    /\ splitRet = NotReturned
    /\ splitRet' = split_items(splitText)
    /\ UNCHANGED splitText
    /\ UNCHANGED notSplitVars

\* the child has written nothing, and nobody has asked anything
InitAsk ==
    /\ childOut = <<>>
    /\ childPos = 0
    /\ askRet = NoAnswer
    /\ askQ = 0
    /\ nAsks = 0
    /\ nNotes = 0

\* no call of split_items
NoSplit == splitText = <<>> /\ splitRet = NotReturned

Init == InitIds /\ InitChan /\ InitCallbacks /\ InitAsk /\ NoSplit

NextIds ==
    \E t \in IdThreads :
        \/ next_wid(t)
        \/ next_var(t)
        \/ current_id(t)
        \/ IdIncrement(t)
        \/ IdReturn(t)

SpecIds == Init /\ [][NextIds]_vars

NextChan ==
    \/ \E t \in Threads :
          \/ start_with(t)
          \/ trace_with(t)
          \/ StartSpawn(t)
          \/ StartStreams(t)
          \/ StartSetup(t)
          \/ StartChannel(t)
          \/ StartThread(t)
          \/ TellSendMsg(t)
          \/ TellSendNl(t)
    \/ WriterRecv
    \/ WriterWriteMsg
    \/ WriterWriteNl
    \/ ChildDies

SpecChan == Init /\ [][NextChan]_vars

\* mainloop and the callback stores, after a successful start
InitLoop == InitIds /\ Started /\ InitCallbacks /\ InitAsk /\ NoSplit

NextLoop ==
    \/ \E r \in Registrable : \E c \in {"f", "h"} : AppRegister(r[1], r[2], c)
    \/ MainloopEnter
    \/ \E rd \in LoopReads : LoopRead(rd)
    \/ LoopCall
    \/ LoopCheck
    \/ LoopReinsert
    \/ EndWishKill
    \/ EndWishExit

SpecLoop == InitLoop /\ [][NextLoop]_vars

\* mainloop and callbacks under keys that contain "after", in four stores
NextMarker ==
    \/ \E s \in {Store0, StoreBool, StoreEvent, StoreFloat} :
          \E c \in {"f", "h"} : AppRegister(s, KeyAfter, c)
    \/ MainloopEnter
    \/ \E rd \in MarkerReads : LoopRead(rd)
    \/ LoopCall
    \/ LoopCheck
    \/ LoopReinsert

SpecMarker == InitLoop /\ [][NextMarker]_vars

\* mainloop and the float callback of a scale whose range has negative values
NextScale ==
    \/ \E c \in {"f", "h"} : AppRegister(StoreFloat, KeyS1, c)
    \/ MainloopEnter
    \/ \E rd \in ScaleReads : LoopRead(rd)
    \/ LoopCall
    \/ LoopCheck
    \/ LoopReinsert

SpecScale == InitLoop /\ [][NextScale]_vars

\* mainloop when the child has written two lines before mainloop reads
NextChunk ==
    \/ \E r \in {<<Store0, KeyB1>>, <<StoreBool, KeyCb2>>, <<StoreFloat, KeyS1>>} :
          \E c \in {"f", "h"} : AppRegister(r[1], r[2], c)
    \/ MainloopEnter
    \/ \E rd \in ChunkReads : LoopRead(rd)
    \/ LoopCall
    \/ LoopCheck
    \/ LoopReinsert

SpecChunk == InitLoop /\ [][NextChunk]_vars

\* ask_wish called by one thread at a time while no thread is in mainloop,
\* after a successful start
NextAsk ==
    \/ \E t \in Threads :
          \/ AskSendMsg(t)
          \/ AskSendNl(t)
          \/ AskRead(t)
    \/ WriterRecv
    \/ WriterWriteMsg
    \/ WriterWriteNl
    \/ ChildExec
    \/ UserClick

SpecAsk == InitLoop /\ [][NextAsk]_vars

\* tell_wish and the writer thread after a successful start, the writer
\* thread being scheduled whenever it can take a step
NextSend ==
    \/ \E t \in Threads :
          \/ TellSendMsg(t)
          \/ TellSendNl(t)
    \/ WriterRecv
    \/ WriterWriteMsg
    \/ WriterWriteNl
    \/ ChildDies

SpecSend ==
    /\ InitLoop
    /\ [][NextSend]_vars
    /\ WF_vars(WriterRecv)
    /\ WF_vars(WriterWriteMsg)
    /\ WF_vars(WriterWriteNl)

\* calls of split_items
InitSplitCall == InitIds /\ InitChan /\ InitCallbacks /\ InitAsk /\ InitSplit

SpecSplit == InitSplitCall /\ [][SplitCall]_vars

(***************************************************************************)
(* Claims about the identifier counter.                                    *)
(***************************************************************************)
\* the digits that end a string, as a number (-1 when it ends in no digit)
TailDigits(s) ==
    IF Len(s) = 0 \/ ~IsDigit(s[Len(s)]) THEN <<>>
    ELSE SubSeq(s, CHOOSE i \in 1..Len(s) :
                      /\ \A j \in i..Len(s) : IsDigit(s[j])
                      /\ (i = 1 \/ ~IsDigit(s[i - 1])),
                Len(s))

TailNumber(s) == IF TailDigits(s) = <<>> THEN -1 ELSE DigitsVal(TailDigits(s))

\* s is .r<N> for a decimal number N
IsRootForm(s) ==
    /\ Len(s) >= 3
    /\ SubSeq(s, 1, 2) = <<".", "r">>
    /\ AllDigits(SubSeq(s, 3, Len(s)))

IsAlloc(r) == r.fn \in {"next_wid", "next_var"}

IsRootWid(r) == r.fn = "next_wid" /\ r.parent = Root

\* C2: any two strings returned by next_wid (idHeld by an earlier call, idLast
\* by the latest one, whatever the threads and the parents) differ, and the
\* results of next_wid(".") are .r<N> with N larger at each later call.
C2_WidsDistinctRootIncreasing ==
    /\ (idHeld.fn = "next_wid" /\ idLast.fn = "next_wid") => idHeld.str # idLast.str
    /\ IsRootWid(idLast) => IsRootForm(idLast.str)
    /\ (IsRootWid(idHeld) /\ IsRootWid(idLast)) =>
           TailNumber(idHeld.str) < TailNumber(idLast.str)

\* two calls of next_wid have returned, the later one a two-digit root id
C2_Witness ==
    /\ IsRootWid(idHeld) /\ IsRootWid(idLast)
    /\ idHeld.str = <<".", "r", "1">>
    /\ idLast.str = <<".", "r", "1", "1">>

\* C3: next_wid and next_var draw from one counter: the numbers in the names
\* two calls return differ whatever their kinds, each call adds exactly 1 to
\* the counter, and current_id returns the counter and leaves it as it was.
C3_SharedCounter ==
    /\ (IsAlloc(idHeld) /\ IsAlloc(idLast)) =>
           /\ idHeld.n # idLast.n
           /\ TailNumber(idHeld.str) # TailNumber(idLast.str)
    /\ IsAlloc(idLast) => TailNumber(idLast.str) = idLast.n
    /\ (idLast.seq = idHeld.seq + 1) =>
           idLast.n = idHeld.n + (IF IsAlloc(idLast) THEN 1 ELSE 0)
    /\ (idLock = 0 /\ idLast.seq > 0) => NEXT_ID = idLast.n

\* a variable name follows a current_id that followed a widget id
C3_Witness ==
    /\ idHeld.fn = "current_id" /\ idHeld.n = 2
    /\ idLast.fn = "next_var" /\ idLast.seq = idHeld.seq + 1
    /\ idLast.str = <<":", ":", "v", "a", "r", "3">>

(***************************************************************************)
(* Claims about the outbound channel and the start-up.                     *)
(***************************************************************************)
IsCmd(m) == m.kind = "cmd"

Cmds(seq) == SelectSeq(seq, IsCmd)

IsPrefix(a, b) == Len(a) <= Len(b) /\ SubSeq(b, 1, Len(a)) = a

\* the command the writer thread holds and has not written yet
InFlight == IF writer = "write_msg" /\ IsCmd(writerMsg) THEN <<writerMsg>> ELSE <<>>

\* C1: the command texts on the child's stdin are, in order, the commands as
\* they entered the channel: none is missing before a later one, none is
\* written twice, none overtakes another; what is not written yet is still
\* in the channel in that order; every text written is followed by a newline
\* (the one the writer thread is about to write for the last text); and two
\* commands of one thread are on stdin in the order of their calls.
C1_WireIsEnqueueOrder ==
    LET written == Cmds(wire)
    IN  /\ IsPrefix(written, enq)
        /\ ReceiverAlive => written \o InFlight \o Cmds(queue) = enq
        /\ \A i \in 1..Len(written) : \A j \in (i + 1)..Len(written) :
              /\ written[i] # written[j]
              /\ written[i].t = written[j].t => written[i].i < written[j].i
        /\ \A i \in 1..Len(wire) : IsCmd(wire[i]) =>
              IF i < Len(wire) THEN wire[i + 1] = NewLine
              ELSE writer \in {"write_nl", "panicked"}

\* two threads have sent a command each, the second thread's entered the
\* channel first, and both are on the child's stdin after the setup
C1_Witness ==
    /\ enq = <<Cmd(2, 1), Cmd(1, 1)>>
    /\ Cmds(wire) = enq
    /\ Len(wire) = NSetup + 8
    /\ writer = "recv"
    /\ queue = <<>>

\* C10: of all the calls of start_with / trace_with, only the first can get
\* past the guard: every later call has returned Err, has spawned no child
\* and no writer thread, whatever the first call did and however the calls
\* overlap; so at most one child and one writer thread exist.
C10_OnlyFirstStartRuns ==
    /\ \A i \in 2..Len(starts) :
          starts[i].result = "Err" /\ ~starts[i].spawned /\ ~starts[i].writer
    /\ Cardinality({i \in 1..Len(starts) : starts[i].spawned}) <= 1
    /\ Cardinality({i \in 1..Len(starts) : starts[i].writer}) <= 1

\* a second thread has called start while the first call is still writing
\* its setup statements
C10_Witness ==
    /\ Len(starts) = 2
    /\ starts[1].result = "running" /\ starts[1].spawned
    /\ chPc[starts[1].thread] = "setup"
    /\ starts[2].thread # starts[1].thread
    /\ starts[2].result = "Err"

(***************************************************************************)
(* Claims about mainloop and the callback stores.                          *)
(***************************************************************************)
\* a dispatch of key K out of the no-argument store is between get_callback0
\* and the end of eval_callback0
InFlight0(K) == cur.store = Store0 /\ cur.key = K

\* C4: a no-argument closure f registered once under a key K that is not a
\* one-shot key, f not registering anything under K itself and nobody else
\* registering K: every click notification read for K calls f exactly once
\* and leaves f registered under K.  While f runs it is one call short of the
\* notifications; at every other moment f has been called as often as
\* notifications for K were read, and K maps to f unless eval_callback0 holds
\* f for the re-insertion.
C4_ClickCallsOnceAndKeeps ==
    \A K \in DOMAIN hist :
        (hist[K].regs = 1 /\ Rebinds(hist[K].clo) = None /\ ~Contains(K, After)) =>
            CASE lp = "call" /\ InFlight0(K) ->
                    hist[K].calls + 1 = hist[K].clicks /\ cur.clo = hist[K].clo
              [] lp \in {"check", "reinsert"} /\ InFlight0(K) ->
                    hist[K].calls = hist[K].clicks /\ cur.clo = hist[K].clo
              [] OTHER ->
                    /\ hist[K].calls = hist[K].clicks
                    /\ K \in DOMAIN callbacks[Store0]
                    /\ callbacks[Store0][K] = hist[K].clo

\* two click notifications for .b1 have been read, the closure registered
\* once under .b1 has run twice and is back in the store
C4_Witness ==
    /\ hist[KeyB1] = [clo |-> "f", regs |-> 1, clicks |-> MaxClicks, calls |-> MaxClicks]
    /\ lp = "read"
    /\ KeyB1 \in DOMAIN callbacks[Store0]
    /\ callbacks[Store0][KeyB1] = "f"

\* C5: a closure that, while it is called for key K, registers another
\* closure g under K: from then on K maps to g in that store (the test after
\* the call finds the key and does not put the old closure back), and the
\* next notification for K calls g.  The same in each of the five stores.
C5_ReplacementSurvives ==
    /\ (rebound.phase = "armed" /\ rebound.by = "closure") =>
          /\ rebound.key \in DOMAIN callbacks[rebound.store]
          /\ callbacks[rebound.store][rebound.key] = rebound.clo
    /\ (rebound.phase = "fired" /\ rebound.by = "closure") =>
          /\ lp = "call"
          /\ cur.store = rebound.store
          /\ cur.key = rebound.key
          /\ cur.clo = rebound.clo

\* the closure registered under .cb2 in the bool store has replaced itself
\* by g while it ran, and the next cb1b line for .cb2 has g called
C5_Witness ==
    /\ rebound = [store |-> StoreBool, key |-> KeyCb2, clo |-> "g", phase |-> "fired",
                  by |-> "closure"]
    /\ lp = "call"
    /\ cur.clo = "g"
    /\ cur.store = StoreBool

\* C6: a click notification for a key the no-argument store does not hold:
\* the step of mainloop that reads it calls no closure, does not panic,
\* leaves all five stores as they are, and mainloop goes on reading.
C6_UnregisteredClickIsNoOp ==
    [][\A rd \in Reads :
          (/\ rd.note.kind = "click"
           /\ rd.note.key \notin DOMAIN callbacks[Store0]
           /\ LoopRead(rd))
          => /\ lp' = "read"
             /\ cur' = NoDispatch
             /\ callbacks' = callbacks
             /\ \A K \in DOMAIN hist : hist'[K].calls = hist[K].calls]_vars

\* the click line of .z, which nobody registers, has been read while the
\* stores hold other closures, and mainloop is reading again
C6_Witness ==
    /\ note = Note("click", KeyNone, NoArg)
    /\ lp = "read"
    /\ cur = NoDispatch
    /\ KeyB1 \in DOMAIN callbacks[Store0]
    /\ KeyB1 \in DOMAIN callbacks[StoreEvent]

\* C7: when mainloop has read a cb1e line and calls the closure of the event
\* store, the key is the pattern of the line and the TkEvent carries the nine
\* fields of the line in their order, mouse_button being the last field.
C7_EventPayloadIsTheLine ==
    (lp = "call" /\ cur.store = StoreEvent /\ note.kind = "event")
        => (cur.key = note.key /\ cur.arg = note.arg)

\* C8: when mainloop has read a cb1b line and calls the closure of the bool
\* store, the key is the id of the line and the argument is true for the
\* value 1 and false for the value 0, the line break and the padding of the
\* buffer after the value notwithstanding.
C8_BoolPayloadIsTheLine ==
    (lp = "call" /\ cur.store = StoreBool /\ note.kind = "bool")
        => (cur.key = note.key /\ cur.arg = note.arg)

\* the line cb1b-.cb2-1 has been read and the closure under .cb2 is called
\* with true
C8_Witness ==
    /\ lp = "call"
    /\ cur.store = StoreBool
    /\ cur.key = KeyCb2
    /\ cur.arg = BoolArg(TRUE)
    /\ note = Note("bool", KeyCb2, BoolArg(TRUE))

\* C9: the step of mainloop that reads the exit line calls kill_wish once and
\* leaves mainloop stopped; mainloop has called kill_wish exactly once when it
\* is stopped and never before; once stopped it reads nothing more and calls
\* no closure.
C9_ExitKillsOnceAndStops ==
    /\ [](lp = "stopped" => (kills.loop = 1 /\ ~childAlive))
    /\ [](lp # "stopped" => kills.loop = 0)
    /\ [][/\ \A rd \in Reads :
               (rd.note.kind = "exit" /\ LoopRead(rd))
               => (lp = "read" /\ lp' = "stopped" /\ kills'.loop = kills.loop + 1)
          /\ lp = "stopped" =>
               (lp' = "stopped" /\ cur' = cur /\ note' = note /\ kills'.loop = kills.loop)]_vars

\* mainloop has returned on the exit line, after a closure had been called
C9_Witness ==
    /\ lp = "stopped"
    /\ note.kind = "exit"
    /\ kills.loop = 1
    /\ ~childAlive
    /\ hist[KeyB1].calls > 0

(***************************************************************************)
(* Claims about the setup writes of start_tk_connection.                   *)
(***************************************************************************)
\* thread t has left the setup writes of its start before the last of them
\* was written: one of the write_all calls failed
SetupWriteFailed(t) ==
    /\ chInv[t] > 0
    /\ chIdx[t] \in 1..NSetup
    /\ chPc[t] # "setup"

\* C11: when a setup write of a start fails, the call returns an error to
\* its caller (the calling thread goes on, it does not panic) and no writer
\* thread has been started.
C11_SetupFailureIsReturned ==
    \A t \in Threads :
        SetupWriteFailed(t) =>
            /\ starts[chInv[t]].result = "Err"
            /\ chPc[t] # "panicked"
            /\ ~starts[chInv[t]].writer

(***************************************************************************)
(* Claims about ask_wish.                                                  *)
(***************************************************************************)
\* C12: with one ask_wish at a time and no thread in mainloop, what
\* ask_wish(q) returns is the child's reply to q, trimmed, and never (part
\* of) a notification line, whenever the child writes its notifications.
C12_AskReturnsTheReply ==
    askRet.q # 0 => askRet.text = Trim(ReplyLine(askRet.q))

(***************************************************************************)
(* Claims about the chunks mainloop does not dispatch.                     *)
(***************************************************************************)
\* the reads of a chunk that has a prefix mainloop knows and not the shape
\* that goes with it
Malformed ==
    {rd \in Reads :
        /\ rd.res = "ok"
        /\ rd.note = NoNote
        /\ \E p \in {PClicked, PCb1b, PCb1e, PCb1f} : StartsWith(rd.data, p)}

\* C13: the step of mainloop that reads a malformed notification line calls
\* no closure, does not fail, and leaves mainloop reading, the stores as
\* they were.
C13_MalformedLineIsSwallowed ==
    [][\A rd \in Malformed :
          LoopRead(rd) => (lp' = "read" /\ cur' = NoDispatch /\ callbacks' = callbacks)]_vars

(***************************************************************************)
(* Claims about split_items.                                               *)
(***************************************************************************)
\* braces that are balanced and not nested: every { is closed by a } before
\* the next {, and every } closes a {
RECURSIVE BalancedFrom(_, _, _)
BalancedFrom(s, i, open) ==
    IF i > Len(s) THEN ~open
    ELSE CASE s[i] = "{" -> ~open /\ BalancedFrom(s, i + 1, TRUE)
           [] s[i] = "}" -> open /\ BalancedFrom(s, i + 1, FALSE)
           [] OTHER -> BalancedFrom(s, i + 1, open)

Balanced(s) == BalancedFrom(s, 1, FALSE)

\* the items of a text, read character by character: outside braces a
\* whitespace or a brace ends the run collected so far, inside braces every
\* character up to the closing brace is collected
RECURSIVE ItemsFrom(_, _, _, _)
ItemsFrom(s, i, inside, item) ==
    LET flush == IF item = <<>> THEN <<>> ELSE <<item>>
    IN  IF i > Len(s) THEN flush
        ELSE IF inside
             THEN IF s[i] = "}" THEN <<item>> \o ItemsFrom(s, i + 1, FALSE, <<>>)
                  ELSE ItemsFrom(s, i + 1, TRUE, Append(item, s[i]))
             ELSE IF s[i] = "{" THEN flush \o ItemsFrom(s, i + 1, TRUE, <<>>)
                  ELSE IF s[i] \in WhiteSpace THEN flush \o ItemsFrom(s, i + 1, FALSE, <<>>)
                  ELSE ItemsFrom(s, i + 1, FALSE, Append(item, s[i]))

Items(s) == ItemsFrom(s, 1, FALSE, <<>>)

\* C14: for a text whose braces are balanced and not nested, split_items
\* returns its items in order: the runs of non-whitespace outside braces and
\* the texts between braces, verbatim; whitespace gives no item.  The five
\* texts of the tests give the five results of the tests.
C14_SplitItemsGivesTheItems ==
    /\ (splitRet # NotReturned /\ Balanced(splitText)) => splitRet = Returned(Items(splitText))
    /\ (splitRet # NotReturned /\ splitText = SplitTest1) => splitRet.items = <<>>
    /\ (splitRet # NotReturned /\ splitText = SplitTest2)
          => splitRet.items = << <<"a", "b", "c">> >>
    /\ (splitRet # NotReturned /\ splitText = SplitTest3)
          => splitRet.items = << <<"a", "b", "c">>, <<"d", "e", "f">> >>
    /\ (splitRet # NotReturned /\ splitText = SplitTest4)
          => splitRet.items = << <<"a", "b", "c", " ", "d", "e", "f">> >>
    /\ (splitRet # NotReturned /\ splitText = SplitTest5)
          => splitRet.items = << <<"a", "b", "c", " ", "d", "e", "f">>, <<"x", "y", "_", "z">>,
                                 <<"a", "n", "o", "t", "h", "e", "r">> >>

\* a word before a brace, a braced text with a blank in it, a word after it
C14_Witness ==
    /\ splitText = <<"a", "{", " ", "}", "_">>
    /\ splitRet = Returned(<< <<"a">>, <<" ">>, <<"_">> >>)

\* the reads mainloop has no branch for: a failed read, the end of the
\* stream, bytes that are not UTF-8, a chunk with none of the six prefixes
Ignored ==
    {rd \in Reads :
        \/ rd.res # "ok"
        \/ rd.data = <<>>
        \/ \A p \in {PClicked, PCb1b, PCb1e, PCb1f, PFont, PExit} : ~StartsWith(rd.data, p)}

\* mainloop reads a chunk that begins with exit
ExitRead == \E rd \in Reads : LoopRead(rd) /\ rd.res = "ok" /\ StartsWith(rd.data, PExit)

\* C15: mainloop goes from running to stopped only in the step that reads a
\* chunk beginning with exit; a failed read, an end-of-stream read, a chunk
\* that is not UTF-8 and a chunk with an unknown prefix call no closure,
\* change no store, do not kill the child and leave mainloop reading; the
\* child is killed only by the exit branch of mainloop or by end_wish.
C15_OnlyExitStops ==
    [][/\ (lp # "stopped" /\ lp' = "stopped") => ExitRead
       /\ lp = "read" =>
             \A rd \in Ignored :
                LoopRead(rd) => /\ lp' = "read"
                                /\ cur' = cur
                                /\ callbacks' = callbacks
                                /\ kills' = kills
                                /\ childAlive' = childAlive
       /\ (kills' # kills \/ childAlive' # childAlive) => (ExitRead \/ EndWishKill)]_vars

\* after a closure has been called for a click, mainloop has read a chunk it
\* has no branch for, and is reading again with the child alive
C15_Witness ==
    /\ note = NoNote
    /\ lp = "read"
    /\ hist[KeyB1].calls > 0
    /\ KeyB1 \in DOMAIN callbacks[Store0]
    /\ childAlive
    /\ kills = [loop |-> 0, end |-> 0]

\* C16: a closure registered by a thread of the application under a key
\* while mainloop dispatches that key (the entry taken out, eval_callback*
\* not finished) is the closure the key maps to once the dispatch is over:
\* the re-insertion of the closure that was called does not overwrite it.
C16_ConcurrentRegistrationSurvives ==
    (/\ rebound.phase = "armed"
     /\ rebound.by = "thread"
     /\ ~(cur.store = rebound.store /\ cur.key = rebound.key))
    => /\ rebound.key \in DOMAIN callbacks[rebound.store]
       /\ callbacks[rebound.store][rebound.key] = rebound.clo

(***************************************************************************)
(* Claims about the locks and the thread of mainloop.                      *)
(***************************************************************************)
\* C17: the thread of mainloop holds no Mutex of a callback store and not
\* the Mutex of the identifier counter while it reads from the child and
\* while a closure runs, so a closure that registers a callback in the store
\* it was called from, takes an identifier and calls tell_wish returns: the
\* thread never blocks on a Mutex it holds itself (until end_wish ends the
\* process).
C17_NoLockAcrossClosure ==
    /\ lp \in {"read", "call", "check", "reinsert"} => loopHolds = {}
    /\ lp # "deadlock"
    /\ (lp = "call" /\ ended # "exited") => ENABLED LoopCall

\* the closure called for .b1 has registered g under .b1, taken an
\* identifier and sent a command, and has returned
C17_Witness ==
    /\ lp = "check"
    /\ cur.clo = "h"
    /\ cur.key = KeyB1
    /\ callbacks[cur.store][KeyB1] = "g"
    /\ NEXT_ID = 1
    /\ queue = <<Cmd(0, 1), NewLine>>
    /\ loopHolds = {}

\* the store a notification of a kind is dispatched from
StoreOf(kind) ==
    CASE kind = "click" -> Store0
      [] kind = "bool" -> StoreBool
      [] kind = "event" -> StoreEvent
      [] kind = "float" -> StoreFloat
      [] kind = "font" -> StoreFont
      [] OTHER -> None

\* C18: closures run on the thread of mainloop: mainloop reads a chunk only
\* when no closure is taken out for a call (the one it dispatched has
\* returned and eval_callback* is over), so at most one closure runs at a
\* time, and the closure that runs is the one of the chunk read last:
\* notifications are dispatched in the order their chunks were read.
C18_ClosuresRunInLoopOrder ==
    /\ [](lp \in {"off", "read", "stopped", "panicked"} => cur = NoDispatch)
    /\ [](cur # NoDispatch => (cur.key = note.key /\ cur.store = StoreOf(note.kind)))
    /\ [][(lp # "read" \/ cur # NoDispatch) => \A rd \in Reads : ~LoopRead(rd)]_vars

\* the closure of a click has run and gone back into its store, and the
\* closure of the float line read after it is being called
C18_Witness ==
    /\ lp = "call"
    /\ cur.store = StoreFloat
    /\ cur.key = KeyS1
    /\ note.kind = "float"
    /\ hist[KeyB1].calls = 1
    /\ KeyB1 \in DOMAIN callbacks[Store0]

\* C19: a closure registered once under a key of the no-argument store that
\* contains "after" is called at most once: when a click notification has
\* had it called, the key has no entry in the store, and a later
\* notification for the key calls nothing.
C19_AfterKeyFiresOnce ==
    \A K \in DOMAIN hist :
        (Contains(K, After) /\ hist[K].regs = 1) =>
            /\ hist[K].calls <= 1
            /\ hist[K].calls <= hist[K].clicks
            /\ hist[K].calls = 1 => K \notin DOMAIN callbacks[Store0]
            /\ (hist[K].calls = 1 /\ InFlight0(K)) => lp = "check"

\* the closure under after1 has been called for the first click line of
\* after1, a second one has been read, and nothing is called or registered
C19_Witness ==
    /\ hist[KeyAfter] = [clo |-> "f", regs |-> 1, clicks |-> 2, calls |-> 1]
    /\ note = Note("click", KeyAfter, NoArg)
    /\ lp = "read"
    /\ cur = NoDispatch
    /\ KeyAfter \notin DOMAIN callbacks[Store0]

\* a closure was registered under the key of the dispatch in progress, in
\* its store, since the dispatch began
InstalledDuringDispatch ==
    /\ rebound.phase = "armed"
    /\ rebound.store = cur.store
    /\ rebound.key = cur.key

\* C20: in every store the dispatch of a key ends with the closure back in
\* the store unless the key contains "after" or a closure was installed
\* under the key meanwhile: when the dispatch of a key that contains "after"
\* ends and nothing was installed under it, the store has no entry for the
\* key, in the bool, event and float stores as in the no-argument store.
C20_SameProtocolInEveryStore ==
    [][(/\ lp \in {"check", "reinsert"}
        /\ lp' = "read"
        /\ Contains(cur.key, After)
        /\ ~InstalledDuringDispatch)
       => cur.key \notin DOMAIN callbacks'[cur.store]]_vars

\* C25: split_items returns a sequence for every text it is called with,
\* the texts with an opening brace that is never closed and the texts with
\* a closing brace before the first opening brace included: no call ends in
\* a panic.
C25_SplitItemsAlwaysReturns ==
    splitRet # NotReturned => splitRet.state = "returned"

\* C23: when mainloop has read a cb1f line that scale_value wrote for the
\* value v and calls the closure of the float store, the key is the widget
\* of the line and the argument is v, for negative v as for positive v:
\* 0.0 stands for v only when v is 0.
C23_FloatPayloadIsTheValue ==
    (lp = "call" /\ cur.store = StoreFloat /\ note.kind = "float")
        => (cur.key = note.key /\ cur.arg = note.arg)

\* C24: one read, one dispatch at most, and the dispatch is that of the
\* first line of the chunk: a closure is taken out for a call only in the
\* step that reads a chunk; it is the closure registered in the store of the
\* prefix of the chunk under the key of the first line, and it is called
\* with what the first line carries, whatever lines follow it in the chunk;
\* while it is out, nothing else is read or called.
C24_FirstLineIsTheDispatch ==
    /\ [](lp \in {"call", "check", "reinsert"} =>
             /\ cur.store = StoreOf(note.kind)
             /\ cur.key = note.key
             /\ cur.arg = note.arg)
    /\ [][(cur' # cur /\ cur' # NoDispatch) =>
             (cur = NoDispatch /\ \E rd \in ChunkReads : LoopRead(rd))]_vars

(***************************************************************************)
(* Claims about the order of the setup statements and the commands.        *)
(***************************************************************************)
\* C22: the child's stdin begins with the setup statements in their order
\* (wm protocol, tearOff, font_choice, scale_value, chan configure) and has
\* no setup statement after them; as long as one of them is not written,
\* SENDER is unset and no writer thread exists, so nothing a thread sends
\* is on stdin before or between them; a start that has returned Ok has
\* written all five.
C22_SetupComesFirst ==
    /\ \A i \in 1..Len(wire) :
          IF i <= NSetup THEN wire[i] = SetupStmt(i) ELSE wire[i].kind # "setup"
    /\ (SENDER = "set" \/ writer # "none") => Len(wire) >= NSetup
    /\ \A i \in 1..Len(starts) : starts[i].result = "Ok" => Len(wire) >= NSetup

\* a start has returned Ok and a command sent after it is on the child's
\* stdin right after the five setup statements
C22_Witness ==
    /\ \E i \in 1..Len(starts) : starts[i].result = "Ok"
    /\ Len(wire) > NSetup
    /\ wire[NSetup + 1].kind = "cmd"
    /\ \A i \in 1..NSetup : wire[i] = SetupStmt(i)

\* the message m is on the child's stdin
OnWire(m) == \E i \in 1..Len(wire) : wire[i] = m

\* the message m has entered the channel
Enqueued(m) == \E i \in 1..Len(enq) : enq[i] = m

\* C21: with the writer thread scheduled fairly, every command that has
\* entered the channel once the writer thread exists is on the child's stdin
\* later on, unless the child has ended; and tell_wish never waits for the
\* writer: each of its two sends can be taken whatever the channel holds.
C21_SentIsWrittenAndSendNeverWaits ==
    /\ \A t \in Threads : \A i \in 1..MaxSends :
          (Enqueued(Cmd(t, i)) /\ writer # "none") ~> (OnWire(Cmd(t, i)) \/ ~childAlive)
    /\ [](\A t \in Threads :
             /\ (chPc[t] = "idle" /\ Len(enq) < MaxSends) => ENABLED TellSendMsg(t)
             /\ chPc[t] = "tell_nl" => ENABLED TellSendNl(t))

\* a thread has completed two calls of tell_wish, the writer thread has put
\* both commands on the stdin of the living child and waits for more
C21_Witness ==
    /\ \E t \in Threads :
          /\ enq = <<Cmd(t, 1), Cmd(t, 2)>>
          /\ chPc[t] = "idle"
          /\ OnWire(Cmd(t, 1)) /\ OnWire(Cmd(t, 2))
    /\ childAlive
    /\ writer = "recv"
    /\ queue = <<>>

====
